---------------------------- MODULE Spec2Model ----------------------------
(***************************************************************************)
(* A model of wazuh_testing/fim.py: the log scanner with its process-wide  *)
(* cursor (is_fim_scan_ended, _last_log_line), the line matchers           *)
(* (callback_detect_end_scan, callback_detect_event), the alert validator  *)
(* (FIELDS, check_fim_alert), the attribute checker (check_checkers) and   *)
(* the alert loader (load_fim_alerts).                                     *)
(***************************************************************************)
EXTENDS Integers, Sequences, FiniteSets, TLC

VARIABLES
    log,            \* the lines of LOG_FILE_PATH, in file order
    log_readable,   \* whether open(LOG_FILE_PATH, 'r') succeeds
    last_log_line,  \* the module global _last_log_line (the cursor)
    pc,             \* "idle", or "reading" inside is_fim_scan_ended's loop
    line_number,    \* the local line_number of the scan in progress
    outcome,        \* how the last call ended: "none", "return", "OSError"
    ret,            \* the value the last call returned
    calls,          \* history: completed calls of is_fim_scan_ended (saturating)
    last_reported,  \* history: the last ordinal a call returned (0: none yet)
    cb,             \* the last application of callback_detect_event
    alert,          \* check_fim_alert's alert argument
    exclude_fields, \* check_fim_alert's exclude_fields argument
    alert_result,   \* how check_fim_alert ended
    checkers,       \* check_checkers' checkers argument, in iteration order
    event_keys,     \* the keys of event['data']['attributes']
    checkers_result,\* how check_checkers ended
    alerts_file,    \* the records of ALERTS_FILE_PATH, in file order
    n_last,         \* load_fim_alerts' argument
    loaded          \* what load_fim_alerts returned

scan_vars == <<log, log_readable, last_log_line, pc, line_number, outcome,
               ret, calls, last_reported, cb>>
alert_vars == <<alert, exclude_fields, alert_result>>
checkers_vars == <<checkers, event_keys, checkers_result>>
load_vars == <<alerts_file, n_last, loaded>>
vars == <<scan_vars, alert_vars, checkers_vars, load_vars>>

(***************************************************************************)
(* Bounds of the model.                                                    *)
(***************************************************************************)
\* the longest log the external writer produces
MaxLen == 3
\* the length of the logs of the quiescent specification
QuietLen == 9
\* where the history counter of completed calls saturates
MaxCalls == 2
\* the longest line handed to callback_detect_event, in tokens
MaxTok == 3
\* how many fields of FIELDS the alerts vary (the others are well-formed)
NVary == 3
\* how many of the default attributes the checkers and events draw from
NAttr == 3
\* the most (attribute, directive) pairs of one check_checkers call
MaxDirectives == 2
\* the most records of the alerts file
MaxAlerts == 5

(***************************************************************************)
(* Log lines.  A line is a sequence of tokens: "MSG" is the literal        *)
(* 'File integrity monitoring scan ended.', "SE" the literal               *)
(* 'Sending event: ', "JSON" a text json.loads accepts, "x" any other      *)
(* non-empty text.                                                         *)
(***************************************************************************)
Tokens == {"x", "MSG", "SE", "JSON"}

RECURSIVE SeqsUpTo(_, _)
SeqsUpTo(S, n) ==
    IF n = 0 THEN {<<>>}
    ELSE LET shorter == SeqsUpTo(S, n - 1)
         IN  shorter \cup {Append(s, t) : s \in {u \in shorter : Len(u) = n - 1}, t \in S}

PlainLine == <<"x">>
MarkerLine == <<"MSG">>
EventLine == <<"SE", "JSON">>
BadEventLine == <<"SE", "x">>

\* the lines the external writer puts into the log
LinePool == {PlainLine, MarkerLine, EventLine, BadEventLine}

\* the lines handed to callback_detect_event
CallbackLines == SeqsUpTo(Tokens, MaxTok)

\* message in line  /  'File integrity monitoring scan ended.' in line
MessageIn(line) == \E i \in 1..Len(line) : line[i] = "MSG"

\* callback_detect_end_scan
callback_detect_end_scan(line) ==
    IF MessageIn(line) THEN [kind |-> "value", value |-> line]
    ELSE [kind |-> "None", value |-> <<>>]

\* json.loads on the captured group
json_loads(text) ==
    IF text = <<"JSON">> THEN [kind |-> "value", value |-> <<"decoded">>]
    ELSE [kind |-> "JSONDecodeError", value |-> <<>>]

\* re.match(r'.*Sending event: (.+)$', line): the greedy .* takes the last
\* 'Sending event: ' that still leaves a non-empty group; 0 when no match
EventMatch(line) ==
    LET at == {i \in 1..(Len(line) - 1) : line[i] = "SE"}
    IN  IF at = {} THEN 0 ELSE CHOOSE i \in at : \A j \in at : j <= i

\* a decode failure is reported as no match
callback_detect_event_swallow(line) ==
    LET m == EventMatch(line)
        r == json_loads(SubSeq(line, m + 1, Len(line)))
    IN  IF m # 0 /\ r.kind = "value" THEN r
        ELSE [kind |-> "None", value |-> <<>>]

\* callback_detect_event
callback_detect_event(line) ==
    LET m == EventMatch(line)
    IN  IF m # 0 THEN json_loads(SubSeq(line, m + 1, Len(line)))
        ELSE [kind |-> "None", value |-> <<>>]

(***************************************************************************)
(* is_fim_scan_ended, one line read per step.                              *)
(***************************************************************************)
\* the guard is dropped: every line is tested again
PastCursorOff(n) == TRUE

\* the guard is off by one: the line at the cursor is tested again
PastCursorAtOrAfter(n) == n >= last_log_line

\* line_number > _last_log_line
PastCursor(n) == n > last_log_line

Bump(c) == IF c < MaxCalls THEN c + 1 ELSE c

\* open(LOG_FILE_PATH, 'r') raises
OpenFails ==
    /\ outcome' = "OSError"
    /\ ret' = 0
    /\ calls' = Bump(calls)
    /\ UNCHANGED <<log, log_readable, last_log_line, pc, line_number,
                   last_reported, cb>>

\* the call: line_number = 0 and the open
BeginScan ==
    /\ pc = "idle"
    /\ IF log_readable
       THEN /\ pc' = "reading"
            /\ line_number' = 0
            /\ UNCHANGED <<log, log_readable, last_log_line, outcome, ret,
                           calls, last_reported, cb>>
       ELSE OpenFails
    /\ UNCHANGED <<alert_vars, checkers_vars, load_vars>>

\* the log is exhausted and the cursor is reset
ExhaustedReset ==
    /\ ret' = -1
    /\ outcome' = "return"
    /\ calls' = Bump(calls)
    /\ pc' = "idle"
    /\ line_number' = 0
    /\ last_log_line' = 0
    /\ UNCHANGED last_reported

\* the loop ends: return -1
Exhausted ==
    /\ ret' = -1
    /\ outcome' = "return"
    /\ calls' = Bump(calls)
    /\ pc' = "idle"
    /\ line_number' = 0
    /\ UNCHANGED <<last_log_line, last_reported>>

\* the match is returned and the cursor is not stored
FoundKeepCursor(n) ==
    /\ ret' = n
    /\ outcome' = "return"
    /\ last_reported' = n
    /\ calls' = Bump(calls)
    /\ pc' = "idle"
    /\ line_number' = 0
    /\ UNCHANGED last_log_line

\* globals()['_last_log_line'] = line_number; return line_number
Found(n) ==
    /\ last_log_line' = n
    /\ ret' = n
    /\ outcome' = "return"
    /\ last_reported' = n
    /\ calls' = Bump(calls)
    /\ pc' = "idle"
    /\ line_number' = 0

\* one iteration of "for line in f", or the end of the file
ReadLine ==
    /\ pc = "reading"
    /\ IF line_number < Len(log)
       THEN LET n == line_number + 1
            IN  IF PastCursor(n) /\ MessageIn(log[n])
                THEN Found(n)
                ELSE /\ line_number' = n
                     /\ UNCHANGED <<last_log_line, ret, outcome,
                                    last_reported, calls, pc>>
       ELSE Exhausted
    /\ UNCHANGED <<log, log_readable, cb>>
    /\ UNCHANGED <<alert_vars, checkers_vars, load_vars>>

(***************************************************************************)
(* The external process that owns the log file, and the caller of the      *)
(* matchers.                                                                *)
(***************************************************************************)
AppendLine ==
    /\ Len(log) < MaxLen
    /\ \E l \in LinePool : log' = Append(log, l)
    /\ UNCHANGED <<log_readable, last_log_line, pc, line_number, outcome,
                   ret, calls, last_reported, cb>>
    /\ UNCHANGED <<alert_vars, checkers_vars, load_vars>>

Truncate ==
    /\ \E k \in 0..(Len(log) - 1) : log' = SubSeq(log, 1, k)
    /\ UNCHANGED <<log_readable, last_log_line, pc, line_number, outcome,
                   ret, calls, last_reported, cb>>
    /\ UNCHANGED <<alert_vars, checkers_vars, load_vars>>

Rewrite ==
    /\ \E i \in 1..Len(log), l \in LinePool :
          /\ l # log[i]
          /\ log' = [log EXCEPT ![i] = l]
    /\ UNCHANGED <<log_readable, last_log_line, pc, line_number, outcome,
                   ret, calls, last_reported, cb>>
    /\ UNCHANGED <<alert_vars, checkers_vars, load_vars>>

SetReadable ==
    /\ log_readable' = ~log_readable
    /\ UNCHANGED <<log, last_log_line, pc, line_number, outcome, ret, calls,
                   last_reported, cb>>
    /\ UNCHANGED <<alert_vars, checkers_vars, load_vars>>

\* the caller hands its line to the event matcher
DetectEvent ==
    /\ cb' = [cb EXCEPT !.result = callback_detect_event(cb.line)]
    /\ UNCHANGED <<log, log_readable, last_log_line, pc, line_number,
                   outcome, ret, calls, last_reported>>
    /\ UNCHANGED <<alert_vars, checkers_vars, load_vars>>

(***************************************************************************)
(* FIELDS and check_fim_alert.  A value is a string or an integer; the     *)
(* regular expressions are given by the sample strings they accept.        *)
(***************************************************************************)
Str(s) == [t |-> "str", s |-> s]
Int7 == [t |-> "int", s |-> "7"]

Md5Sample == "aaaaaaaaaaaaaaaaaaaaaaaaaaaaaaaa"
Sha256Sample == "aaaaaaaaaaaaaaaaaaaaaaaaaaaaaaaaaaaaaaaaaaaaaaaaaaaaaaaaaaaaaaaa"
DateSample == "2019-08-01T10:00:00"

\* re.match(pattern, value): a TypeError unless value is a string
ReMatch(value, accepted) ==
    IF value.t # "str" THEN "TypeError"
    ELSE IF value.s \in accepted THEN "True" ELSE "False"

Truth(b) == IF b THEN "True" ELSE "False"

\* ^(?:\/[^\/]+)*$
check_path(value) == ReMatch(value, {"", "/a/b"})
\* ^\d+$
check_integer_formatted_string(value) == ReMatch(value, {"12345"})
\* ^[a-f0-9]{32}$
check_md5(value) == ReMatch(value, {Md5Sample})
\* ^[0-9a-f]{5,40}$
check_sha1(value) == ReMatch(value, {"12345", "added", Md5Sample})
\* ^[a-f0-9]{64}$
check_sha256(value) == ReMatch(value, {Sha256Sample})
\* ^\d{4}-\d{2}-\d{2}T\d{2}\:\d{2}\:\d{2}$
check_datetime(value) == ReMatch(value, {DateSample})
check_string(value) == Truth(value.t = "str")
check_integer(value) == Truth(value.t = "int")
check_event(value) ==
    Truth(value.t = "str" /\ value.s \in {"added", "modified", "deleted"})

\* FIELDS, in the order FIELDS.items() yields
FIELDS ==
    << [name |-> "path", checker |-> "check_path"],
       [name |-> "size_after", checker |-> "check_integer_formatted_string"],
       [name |-> "perm_after", checker |-> "check_integer_formatted_string"],
       [name |-> "uid_after", checker |-> "check_integer_formatted_string"],
       [name |-> "gid_after", checker |-> "check_integer_formatted_string"],
       [name |-> "md5_after", checker |-> "check_md5"],
       [name |-> "sha1_after", checker |-> "check_sha1"],
       [name |-> "sha256_after", checker |-> "check_sha256"],
       [name |-> "uname_after", checker |-> "check_string"],
       [name |-> "gname_after", checker |-> "check_string"],
       [name |-> "mtime_after", checker |-> "check_datetime"],
       [name |-> "inode_after", checker |-> "check_integer"],
       [name |-> "event", checker |-> "check_event"] >>

FieldNames == {FIELDS[i].name : i \in 1..Len(FIELDS)}

\* checker(alert[field])
Call(checker, value) ==
    CASE checker = "check_path" -> check_path(value)
      [] checker = "check_integer_formatted_string" -> check_integer_formatted_string(value)
      [] checker = "check_md5" -> check_md5(value)
      [] checker = "check_sha1" -> check_sha1(value)
      [] checker = "check_sha256" -> check_sha256(value)
      [] checker = "check_datetime" -> check_datetime(value)
      [] checker = "check_string" -> check_string(value)
      [] checker = "check_integer" -> check_integer(value)
      [] checker = "check_event" -> check_event(value)

\* the else branch is missing: an excluded field is skipped
RECURSIVE check_fim_alert_skip_from(_, _, _)
check_fim_alert_skip_from(i, a, excluded) ==
    IF i > Len(FIELDS) THEN "ok"
    ELSE LET field == FIELDS[i].name
             checker == FIELDS[i].checker
         IN  IF field \notin excluded
             THEN IF field \notin DOMAIN a THEN "AssertionError"
                  ELSE LET r == Call(checker, a[field])
                       IN  IF r = "TypeError" THEN "TypeError"
                           ELSE IF r = "False" THEN "AssertionError"
                           ELSE check_fim_alert_skip_from(i + 1, a, excluded)
             ELSE check_fim_alert_skip_from(i + 1, a, excluded)

check_fim_alert_skip(a, excluded) == check_fim_alert_skip_from(1, a, excluded)

\* assert(checker(alert[field])) is missing: only presence is checked
RECURSIVE check_fim_alert_presence_from(_, _, _)
check_fim_alert_presence_from(i, a, excluded) ==
    IF i > Len(FIELDS) THEN "ok"
    ELSE LET field == FIELDS[i].name
         IN  IF field \notin excluded
             THEN IF field \notin DOMAIN a THEN "AssertionError"
                  ELSE check_fim_alert_presence_from(i + 1, a, excluded)
             ELSE IF field \in DOMAIN a THEN "AssertionError"
                  ELSE check_fim_alert_presence_from(i + 1, a, excluded)

check_fim_alert_presence(a, excluded) == check_fim_alert_presence_from(1, a, excluded)

\* the loop of check_fim_alert from the i-th item of FIELDS on
RECURSIVE check_fim_alert_from(_, _, _)
check_fim_alert_from(i, a, excluded) ==
    IF i > Len(FIELDS) THEN "ok"
    ELSE LET field == FIELDS[i].name
             checker == FIELDS[i].checker
         IN  IF field \notin excluded
             THEN IF field \notin DOMAIN a THEN "AssertionError"
                  ELSE LET r == Call(checker, a[field])
                       IN  IF r = "TypeError" THEN "TypeError"
                           ELSE IF r = "False" THEN "AssertionError"
                           ELSE check_fim_alert_from(i + 1, a, excluded)
             ELSE IF field \in DOMAIN a THEN "AssertionError"
                  ELSE check_fim_alert_from(i + 1, a, excluded)

\* check_fim_alert: "ok", or the exception it raises
check_fim_alert(a, excluded) == check_fim_alert_from(1, a, excluded)

CheckAlert ==
    /\ alert_result' = check_fim_alert(alert, exclude_fields)
    /\ UNCHANGED <<alert, exclude_fields>>
    /\ UNCHANGED <<scan_vars, checkers_vars, load_vars>>

\* the alerts handed to check_fim_alert
VaryOrder ==
    <<"path", "inode_after", "event", "sha1_after", "uname_after", "md5_after",
      "size_after", "perm_after", "uid_after", "gid_after", "sha256_after",
      "gname_after", "mtime_after">>
Varied == {VaryOrder[i] : i \in 1..NVary}
VariedValues == {Str("/a/b"), Str("12345"), Str("added"), Int7}
AllValues ==
    VariedValues \cup {Str(Md5Sample), Str(Sha256Sample), Str(DateSample)}
Absent == [t |-> "absent", s |-> ""]
CheckerOf(name) == (CHOOSE i \in 1..Len(FIELDS) : FIELDS[i].name = name)
GoodValue(name) ==
    CHOOSE v \in AllValues : Call(FIELDS[CheckerOf(name)].checker, v) = "True"
AlertOf(choice, extra) ==
    [f \in ((FieldNames \ Varied) \cup {v \in Varied : choice[v] # Absent} \cup extra) |->
        IF f \in Varied THEN choice[f]
        ELSE IF f \in FieldNames THEN GoodValue(f)
        ELSE Str("anything")]

(***************************************************************************)
(* check_checkers.                                                         *)
(***************************************************************************)
default_attributes ==
    {"type", "size", "perm", "uid", "gid", "user_name", "group_name", "inode",
     "mtime", "hash_md5", "hash_sha1", "hash_sha256", "checksum"}

\* "except" only asserts that its own attribute is not in the event
RECURSIVE check_checkers_own_from(_, _, _, _)
check_checkers_own_from(i, cs, keys, defaults) ==
    IF i > Len(cs) THEN "ok"
    ELSE LET check == cs[i]
         IN  IF check[2] = "yes"
             THEN IF check[1] \in keys
                  THEN check_checkers_own_from(i + 1, cs, keys, defaults)
                  ELSE "AssertionError"
             ELSE IF check[2] = "except"
             THEN IF check[1] \notin defaults THEN "KeyError"
                  ELSE IF check[1] \notin keys
                  THEN check_checkers_own_from(i + 1, cs, keys, defaults \ {check[1]})
                  ELSE "AssertionError"
             ELSE IF check[1] \notin keys
                  THEN check_checkers_own_from(i + 1, cs, keys, defaults)
                  ELSE "AssertionError"

check_checkers_own(cs, keys) == check_checkers_own_from(1, cs, keys, default_attributes)

\* "except" asserts the subset before it removes the attribute
RECURSIVE check_checkers_late_from(_, _, _, _)
check_checkers_late_from(i, cs, keys, defaults) ==
    IF i > Len(cs) THEN "ok"
    ELSE LET check == cs[i]
         IN  IF check[2] = "yes"
             THEN IF check[1] \in keys
                  THEN check_checkers_late_from(i + 1, cs, keys, defaults)
                  ELSE "AssertionError"
             ELSE IF check[2] = "except"
             THEN IF ~(keys \subseteq defaults) THEN "AssertionError"
                  ELSE IF check[1] \notin defaults THEN "KeyError"
                  ELSE check_checkers_late_from(i + 1, cs, keys, defaults \ {check[1]})
             ELSE IF check[1] \notin keys
                  THEN check_checkers_late_from(i + 1, cs, keys, defaults)
                  ELSE "AssertionError"

check_checkers_late(cs, keys) == check_checkers_late_from(1, cs, keys, default_attributes)

\* the loop of check_checkers from the i-th item of checkers on, with the
\* default_attributes the earlier items left
RECURSIVE check_checkers_from(_, _, _, _)
check_checkers_from(i, cs, keys, defaults) ==
    IF i > Len(cs) THEN "ok"
    ELSE LET check == cs[i]
         IN  IF check[2] = "yes"
             THEN IF check[1] \in keys
                  THEN check_checkers_from(i + 1, cs, keys, defaults)
                  ELSE "AssertionError"
             ELSE IF check[2] = "except"
             THEN IF check[1] \notin defaults THEN "KeyError"
                  ELSE IF keys \subseteq (defaults \ {check[1]})
                  THEN check_checkers_from(i + 1, cs, keys, defaults \ {check[1]})
                  ELSE "AssertionError"
             ELSE IF check[1] \notin keys
                  THEN check_checkers_from(i + 1, cs, keys, defaults)
                  ELSE "AssertionError"

\* check_checkers: "ok", or the exception it raises
check_checkers(cs, keys) == check_checkers_from(1, cs, keys, default_attributes)

CheckCheckers ==
    /\ checkers_result' = check_checkers(checkers, event_keys)
    /\ UNCHANGED <<checkers, event_keys>>
    /\ UNCHANGED <<scan_vars, alert_vars, load_vars>>

\* the attributes the checkers and the events draw from
AttrOrder ==
    <<"type", "size", "perm", "uid", "gid", "user_name", "group_name", "inode",
      "mtime", "hash_md5", "hash_sha1", "hash_sha256", "checksum">>
AttrPool == {AttrOrder[i] : i \in 1..NAttr} \cup {"extra"}
Directives == {"yes", "no", "except"}
\* a dict has each key once
DistinctKeys(cs) == \A i, j \in 1..Len(cs) : cs[i][1] = cs[j][1] => i = j
CheckerDicts ==
    {cs \in SeqsUpTo(AttrPool \X Directives, MaxDirectives) : DistinctKeys(cs)}

(***************************************************************************)
(* load_fim_alerts.  A record of the alerts file holds a syscheck           *)
(* sub-object or none.                                                     *)
(***************************************************************************)
None == "None"
\* jq('.syscheck') on one record: the sub-object, or null
jq_syscheck(record) ==
    IF "syscheck" \in DOMAIN record THEN record["syscheck"] ELSE None

\* jq(...).transform(text=alerts, multiple_output=True)
jq_transform(records) == [i \in 1..Len(records) |-> jq_syscheck(records[i])]

NotNone(x) == x # None

\* lst[start:]
PySliceFrom(lst, start) ==
    LET len == Len(lst)
        lo == IF start < 0
              THEN (IF len + start < 0 THEN 0 ELSE len + start)
              ELSE (IF start > len THEN len ELSE start)
    IN  SubSeq(lst, lo + 1, len)

\* the slice is taken before the records without syscheck are dropped
load_fim_alerts_slice_first(records, n) ==
    SelectSeq(PySliceFrom(jq_transform(records), -n), NotNone)

\* load_fim_alerts
load_fim_alerts(records, n) ==
    PySliceFrom(SelectSeq(jq_transform(records), NotNone), -n)

LoadAlerts ==
    /\ loaded' = [done |-> TRUE, value |-> load_fim_alerts(alerts_file, n_last)]
    /\ UNCHANGED <<alerts_file, n_last>>
    /\ UNCHANGED <<scan_vars, alert_vars, checkers_vars>>

\* the records of the alerts file
RecordPool ==
    { [rule |-> "r"],
      [rule |-> "r", syscheck |-> "fimA"],
      [rule |-> "r", syscheck |-> "fimB"] }

(***************************************************************************)
(* Initial states.                                                         *)
(***************************************************************************)
NoCallback == [line |-> <<>>, result |-> [kind |-> "unset", value |-> <<>>]]

ScanStart ==
    /\ log_readable = TRUE
    /\ last_log_line = 0
    /\ pc = "idle"
    /\ line_number = 0
    /\ outcome = "none"
    /\ ret = 0
    /\ calls = 0
    /\ last_reported = 0

AlertParked ==
    /\ alert = <<>>
    /\ exclude_fields = {}
    /\ alert_result = "none"

CheckersParked ==
    /\ checkers = <<>>
    /\ event_keys = {}
    /\ checkers_result = "none"

NotLoaded == [done |-> FALSE, value |-> <<>>]

LoadParked ==
    /\ alerts_file = <<>>
    /\ n_last = 0
    /\ loaded = NotLoaded

Init ==
    /\ log = <<>>
    /\ ScanStart
    /\ cb = NoCallback
    /\ AlertParked /\ CheckersParked /\ LoadParked

Next ==
    \/ BeginScan
    \/ ReadLine
    \/ AppendLine
    \/ Truncate
    \/ Rewrite

\* the scanner against a log that is appended to, truncated and rewritten
Spec == Init /\ [][Next]_vars

\* a log of QuietLen plain lines with at most two event or marker lines
QuietLogs ==
    LET plain == [i \in 1..QuietLen |-> PlainLine]
        special == {EventLine, MarkerLine}
    IN  {plain}
        \cup {[plain EXCEPT ![i] = l] : i \in 1..QuietLen, l \in special}
        \cup {[plain EXCEPT ![i] = l, ![j] = m] :
                 i \in 1..QuietLen, j \in 1..QuietLen, l \in special, m \in special}

InitQuiet ==
    /\ log \in QuietLogs
    /\ ScanStart
    /\ cb = NoCallback
    /\ AlertParked /\ CheckersParked /\ LoadParked

NextQuiet ==
    \/ BeginScan
    \/ ReadLine

\* repeated scans of a log nobody writes to
SpecQuiet == InitQuiet /\ [][NextQuiet]_vars

NextAppend ==
    \/ BeginScan
    \/ ReadLine
    \/ AppendLine

\* a caller that keeps polling a log that is only appended to
SpecAppend ==
    /\ Init
    /\ [][NextAppend]_vars
    /\ WF_vars(BeginScan)
    /\ WF_vars(ReadLine)

InitErr ==
    /\ log \in SeqsUpTo({PlainLine, MarkerLine}, MaxLen)
    /\ ScanStart
    /\ \E line \in CallbackLines : cb = [NoCallback EXCEPT !.line = line]
    /\ AlertParked /\ CheckersParked /\ LoadParked

NextErr ==
    \/ BeginScan
    \/ ReadLine
    \/ SetReadable
    \/ DetectEvent

\* scans of a log whose permissions change, and the event matcher
SpecErr == InitErr /\ [][NextErr]_vars

ScanParked ==
    /\ log = <<>>
    /\ ScanStart
    /\ cb = NoCallback

InitAlert ==
    /\ \E choice \in [Varied -> VariedValues \cup {Absent}], extra \in SUBSET {"extra"} :
          alert = AlertOf(choice, extra)
    /\ exclude_fields \in SUBSET (Varied \cup {"bogus"})
    /\ alert_result = "none"
    /\ ScanParked /\ CheckersParked /\ LoadParked

\* check_fim_alert on every alert and exclusion set of the bounds
SpecAlert == InitAlert /\ [][CheckAlert]_vars

InitCheckers ==
    /\ checkers \in CheckerDicts
    /\ event_keys \in SUBSET AttrPool
    /\ checkers_result = "none"
    /\ ScanParked /\ AlertParked /\ LoadParked

\* check_checkers on every checkers dict and event of the bounds
SpecCheckers == InitCheckers /\ [][CheckCheckers]_vars

InitLoad ==
    /\ alerts_file \in SeqsUpTo(RecordPool, MaxAlerts)
    /\ n_last \in 0..(MaxAlerts + 1)
    /\ loaded = NotLoaded
    /\ ScanParked /\ AlertParked /\ CheckersParked

\* load_fim_alerts on every alerts file and n_last of the bounds
SpecLoad == InitLoad /\ [][LoadAlerts]_vars

(***************************************************************************)
(* Claims about the scanner.                                               *)
(***************************************************************************)
\* a step in which a call of is_fim_scan_ended that opened the log returns
ScanCompletes == pc = "reading" /\ pc' = "idle"

\* the first ordinal beyond c whose line holds the marker, 0 when none
FirstMarkerAfter(l, c) ==
    LET at == {i \in (c + 1)..Len(l) : MessageIn(l[i])}
    IN  IF at = {} THEN 0 ELSE CHOOSE i \in at : \A j \in at : i <= j

\* the first ordinal beyond c whose line the end-of-scan matcher or the
\* event matcher matches, 0 when none
FirstMatchAfter(l, c) ==
    LET at == {i \in (c + 1)..Len(l) : MessageIn(l[i]) \/ EventMatch(l[i]) # 0}
    IN  IF at = {} THEN 0 ELSE CHOOSE i \in at : \A j \in at : i <= j

\* event emission at ordinal 5, end-of-scan marker at ordinal 9
ExampleLog ==
    /\ Len(log) >= 9
    /\ \A i \in 1..Len(log) :
          log[i] = IF i = 5 THEN EventLine ELSE IF i = 9 THEN MarkerLine ELSE PlainLine

\* C1 as stated: a scan from cursor c returns the first line beyond c that
\* the end-of-scan or the event matcher matches and moves the cursor there
\* (ordinal 5 first, then ordinal 9, for the example log).
C1_Original ==
    [][ScanCompletes =>
         LET m == FirstMatchAfter(log, last_log_line)
         IN  IF m = 0 THEN ret' = -1 /\ last_log_line' = last_log_line
             ELSE ret' = m /\ last_log_line' = m]_vars

\* C1 amended: a scan from cursor c tests only for the end-of-scan marker;
\* it returns the ordinal of the first marker line beyond c and moves the
\* cursor there, or returns -1 and leaves the cursor.  For the example log
\* the first scan returns 9 with the cursor at 9 and every later scan
\* returns -1: the event line at ordinal 5 is never reported, and ordinal 9
\* is not reported again.
C1_FirstMarker ==
    /\ [][ScanCompletes =>
            LET m == FirstMarkerAfter(log, last_log_line)
            IN  IF m = 0 THEN ret' = -1 /\ last_log_line' = last_log_line
                ELSE ret' = m /\ last_log_line' = m]_vars
    /\ [](ExampleLog /\ pc = "idle" =>
            /\ calls = 1 => ret = 9 /\ last_log_line = 9
            /\ calls >= 2 => ret = -1 /\ last_log_line = 9)

C1_Witness ==
    ExampleLog /\ pc = "idle" /\ calls = 2 /\ ret = -1 /\ last_log_line = 9

\* C2: the cursor starts at 0 and never decreases; it changes only in the
\* step in which a scan returns a match, and then to the ordinal of the
\* line just read, which holds the marker and is what the scan returns.
C2_CursorMonotone ==
    /\ last_log_line = 0
    /\ [][last_log_line' # last_log_line =>
            /\ ScanCompletes
            /\ last_log_line' > last_log_line
            /\ last_log_line' = line_number + 1
            /\ last_log_line' <= Len(log)
            /\ MessageIn(log[last_log_line'])
            /\ outcome' = "return"
            /\ ret' = last_log_line']_vars

\* the cursor outlives a truncation below it, after a scan that read lines
\* and found nothing
C2_Witness ==
    /\ last_log_line > Len(log)
    /\ Len(log) > 0
    /\ pc = "idle"
    /\ calls = 2
    /\ ret = -1

\* C3 as stated: of two scans of an unchanged log both yield no-match and
\* the second leaves the cursor unchanged.
C3_Original ==
    [][ScanCompletes /\ calls >= 1 =>
         ret = -1 /\ ret' = -1 /\ last_log_line' = last_log_line]_vars

\* C3 amended: when a scan yields no-match, a second scan of the unchanged
\* log yields no-match too and leaves the cursor unchanged.
C3_Idempotent ==
    [][ScanCompletes /\ calls >= 1 /\ ret = -1 =>
         ret' = -1 /\ last_log_line' = last_log_line]_vars

\* two scans that both found nothing
C3_Witness ==
    pc = "idle" /\ calls = 2 /\ ret = -1 /\ last_reported = 0

\* C4: with lines appended between the line reads of the scans, the
\* ordinals the scans return are strictly increasing, and every marker line
\* beyond the cursor is returned by a later scan of a caller that keeps
\* polling.
C4_NoRepeatNoLoss ==
    /\ [][ScanCompletes /\ ret' # -1 => ret' > last_reported]_vars
    /\ \A k \in 1..MaxLen :
          (k <= Len(log) /\ MessageIn(log[k]) /\ k > last_log_line)
             ~> (outcome = "return" /\ ret = k)

\* two marker lines, both reported, the second one last
C4_Witness ==
    /\ Len(log) >= 3
    /\ MessageIn(log[1])
    /\ ~MessageIn(log[2])
    /\ MessageIn(log[3])
    /\ pc = "idle"
    /\ ret = 3

\* C9: while the log cannot be opened a call ends in the I/O error, reads
\* nothing and leaves the cursor; a scan that exhausts the log returns the
\* sentinel -1; the event matcher answers None only for a line without
\* 'Sending event: <text>', and a decoded value only when the text after
\* the matched 'Sending event: ' is JSON: a matched line with any other
\* payload is an error.
C9_Outcomes ==
    /\ [][pc = "idle" /\ ~log_readable =>
            /\ pc' = "idle"
            /\ last_log_line' = last_log_line
            /\ outcome' \in {outcome, "OSError"}
            /\ calls' # calls => outcome' = "OSError"]_vars
    /\ [][ScanCompletes /\ line_number >= Len(log) =>
            outcome' = "return" /\ ret' = -1 /\ last_log_line' = last_log_line]_vars
    /\ [](cb.result.kind # "unset" =>
            LET line == cb.line
                matched == \E i \in 1..(Len(line) - 1) : line[i] = "SE"
                json == \E i \in 1..(Len(line) - 1) :
                           line[i] = "SE" /\ SubSeq(line, i + 1, Len(line)) = <<"JSON">>
            IN  /\ cb.result.kind = "None" <=> ~matched
                /\ cb.result.kind = "value" <=> json
                /\ cb.result.kind = "JSONDecodeError" <=> matched /\ ~json)

\* an I/O error after a match, the cursor still on the match, and a matched
\* line with a malformed payload
C9_Witness ==
    /\ outcome = "OSError"
    /\ last_log_line > 0
    /\ pc = "idle"
    /\ cb.line = <<"SE", "JSON", "SE">>
    /\ cb.result.kind = "JSONDecodeError"

(***************************************************************************)
(* Claims about check_fim_alert.                                           *)
(***************************************************************************)
AlertFails == alert_result \in {"AssertionError", "TypeError"}

\* the rule check_fim_alert applies to one field of FIELDS
FieldRuleHolds(i) ==
    IF FIELDS[i].name \in exclude_fields
    THEN FIELDS[i].name \notin DOMAIN alert
    ELSE /\ FIELDS[i].name \in DOMAIN alert
         /\ Call(FIELDS[i].checker, alert[FIELDS[i].name]) = "True"

\* C5 as stated: with a field F of FIELDS excluded, check_fim_alert fails
\* if and only if F is in the alert.
C5_Original ==
    alert_result # "none" =>
        \A F \in exclude_fields \cap FieldNames : AlertFails <=> F \in DOMAIN alert

\* C5 amended: with a field F of FIELDS excluded, check_fim_alert fails
\* whenever F is in the alert; when F is not in the alert it fails if and
\* only if another field of FIELDS breaks its own rule.
C5_ExcludedPresentFails ==
    alert_result # "none" =>
        \A F \in exclude_fields \cap FieldNames :
            /\ F \in DOMAIN alert => AlertFails
            /\ F \notin DOMAIN alert =>
                 (AlertFails <=>
                    \E i \in 1..Len(FIELDS) : FIELDS[i].name # F /\ ~FieldRuleHolds(i))

\* the excluded field is the only thing wrong with the alert
C5_Witness ==
    /\ alert_result = "AssertionError"
    /\ exclude_fields = {"event"}
    /\ "event" \in DOMAIN alert
    /\ \A i \in 1..Len(FIELDS) : FIELDS[i].name # "event" => FieldRuleHolds(i)

\* C6: check_fim_alert succeeds exactly when every field of FIELDS keeps
\* its rule (excluded: absent; otherwise present with a value its checker
\* accepts), and neither the alert's fields outside FIELDS nor the excluded
\* names outside FIELDS change how it ends.
C6_ExactlyTheRules ==
    alert_result # "none" =>
        /\ alert_result = "ok" <=> \A i \in 1..Len(FIELDS) : FieldRuleHolds(i)
        /\ alert_result =
             check_fim_alert([f \in DOMAIN alert \cap FieldNames |-> alert[f]],
                             exclude_fields \cap FieldNames)

\* an alert with an unknown field and an unknown excluded name passes
C6_Witness ==
    /\ alert_result = "ok"
    /\ "extra" \in DOMAIN alert
    /\ "bogus" \in exclude_fields
    /\ "inode_after" \in exclude_fields

(***************************************************************************)
(* Claims about check_checkers.                                            *)
(***************************************************************************)
OnlyExcept == Len(checkers) >= 1 /\ \A i \in 1..Len(checkers) : checkers[i][2] = "except"
Excepted == {checkers[i][1] : i \in 1..Len(checkers)}

\* C7 as stated: a call whose directives are all "except" passes if and
\* only if the event's attribute keys are a subset of the defaults minus
\* the excepted attributes.
C7_Original ==
    checkers_result # "none" /\ OnlyExcept =>
        (checkers_result = "ok" <=> event_keys \subseteq (default_attributes \ Excepted))

\* C7 amended: a call whose directives are all "except", each for an
\* attribute of the default set, passes if and only if the event's
\* attribute keys are a subset of the defaults minus the excepted
\* attributes; with {type: "except"} the events {size} and {size, perm}
\* pass and {type} fails.
C7_ExceptSubset ==
    checkers_result # "none" /\ OnlyExcept /\ Excepted \subseteq default_attributes =>
        (checkers_result = "ok" <=> event_keys \subseteq (default_attributes \ Excepted))

\* {type: "except"} on an event with the attributes size and perm
C7_Witness ==
    /\ checkers = << <<"type", "except">> >>
    /\ event_keys = {"size", "perm"}
    /\ checkers_result = "ok"

\* the permutations of 1..n
IndexOrders ==
    [n \in 0..MaxDirectives |->
        {q \in [1..n -> 1..n] : \A i, j \in 1..n : q[i] = q[j] => i = j}]

\* the orders in which the pairs of cs can be processed
Orders(cs) == {[i \in 1..Len(cs) |-> cs[p[i]]] : p \in IndexOrders[Len(cs)]}

\* C10: whether check_checkers passes does not depend on the order of the
\* (attribute, directive) pairs.
C10_OrderIndependent ==
    checkers_result # "none" =>
        \A cs \in Orders(checkers) :
            check_checkers(cs, event_keys) = "ok" <=> checkers_result = "ok"

\* a call that ends in the lookup error in one order and in an assertion
\* failure in another
C10_Witness ==
    /\ checkers_result = "KeyError"
    /\ \E cs \in Orders(checkers) : check_checkers(cs, event_keys) = "AssertionError"

(***************************************************************************)
(* Claims about load_fim_alerts.                                           *)
(***************************************************************************)
\* the positions of the records with a syscheck sub-object
WithSyscheck == {i \in 1..Len(alerts_file) : "syscheck" \in DOMAIN alerts_file[i]}

\* C8: load_fim_alerts(n) returns the syscheck sub-objects of the last n
\* records that hold one, in file order; all of them when n is 0 or fewer
\* than n hold one.
C8_TrailingSyscheck ==
    loaded.done =>
        LET cnt == Cardinality(WithSyscheck)
            k == IF n_last = 0 \/ n_last > cnt THEN cnt ELSE n_last
        IN  /\ Len(loaded.value) = k
            /\ \A j \in 1..k :
                 \E i \in WithSyscheck :
                    /\ Cardinality({h \in WithSyscheck : h > i}) = k - j
                    /\ loaded.value[j] = alerts_file[i]["syscheck"]

\* n = 2 on five records, the last of them without a syscheck sub-object
C8_Witness ==
    /\ loaded.done
    /\ n_last = 2
    /\ Len(alerts_file) = 5
    /\ "syscheck" \notin DOMAIN alerts_file[5]
    /\ loaded.value = <<"fimA", "fimB">>

=============================================================================
